---- MODULE Spec2Model ----
(***************************************************************************)
(* GravelDB storage engine: WAL, skiplist memtable, immutable-memtable     *)
(* queue, SSTable tiers, background flush and tiered compaction, Close,    *)
(* crash and re-Open.                                                      *)
(*                                                                         *)
(* Keys are the ordinals 1..NumKeys (byte-lexicographic order is the       *)
(* order of the ordinals, every key is one byte long); values are short    *)
(* strings.  A nil []byte is the marker Nil, which serialises to a         *)
(* zero-length value and is read back as a non-nil empty value.            *)
(***************************************************************************)
EXTENDS Integers, Sequences, FiniteSets, Bags, TLC

\* ---------------------------------------------------------------- bounds
NumKeys == 2
MaxWrites == 2
MaxRestarts == 1
MaxFiles == 3
MaxScriptFiles == 8
MaxSources == 2
MaxSeed == 5
MaxInterval == 3

\* ------------------------------------------------------- program constants
PutEntry == 0
DeleteEntry == 1
defaultMaxMemtableSize == 4194304
defaultMaxTablesPerTier == 4
defaultIndexInterval == 16

Keys == 1..NumKeys
\* values are opaque bytes to the engine: the n-th write of a run carries the
\* n-th value, so that any two writes can be told apart
ValueOf(n) == ToString(n)
Nil == "<nil>"

\* configurations the engine is opened with (0 = field left at its zero value)
MemSizeOptions == {0, 1}
TablesPerTierOptions == {0, 1}

\* Config.FillDefaults: a zero field takes the default
FillDefaults(c) ==
    [maxMemtableSize  |-> IF c.maxMemtableSize = 0 THEN defaultMaxMemtableSize
                          ELSE c.maxMemtableSize,
     maxTablesPerTier |-> IF c.maxTablesPerTier = 0 THEN defaultMaxTablesPerTier
                          ELSE c.maxTablesPerTier,
     indexInterval    |-> IF c.indexInterval = 0 THEN defaultIndexInterval
                          ELSE c.indexInterval]

\* ------------------------------------------------------------ record codec
KeyLen(k) == 1
ValLen(v) == IF v = Nil THEN 0 ELSE Len(v)

\* WriteEntryAt followed by ReadEntryAt: the value is written with its length
\* (0 for nil) and read back into a freshly made, non-nil slice
Stored(type, k, v) == [type |-> type, key |-> k, value |-> IF v = Nil THEN "" ELSE v]

\* ---------------------------------------------------------------- skiplist
NewMemtable(id) == [id |-> id, data |-> <<>>, size |-> 0]

HasKey(m, k) == k \in DOMAIN m.data

\* SkipList.Get; the zero Entry when the key is absent
ZeroEntry == [type |-> PutEntry, value |-> Nil]
SkipGet(m, k) == IF HasKey(m, k) THEN m.data[k] ELSE ZeroEntry

\* SkipList.Put: an existing node has its entry replaced and the size is left
\* as it was; a new node adds len(key)+len(value)
SkipPut(m, k, e) ==
    IF HasKey(m, k)
    THEN [m EXCEPT !.data = [m.data EXCEPT ![k] = e]]
    ELSE [m EXCEPT !.data = (k :> e) @@ m.data,
                   !.size = m.size + KeyLen(k) + ValLen(e.value)]

MemPut(m, k, v) == SkipPut(m, k, [type |-> PutEntry, value |-> v])

\* a delete that unlinks the node instead of writing a tombstone
MemDeleteMutant(m, k) ==
    [m EXCEPT !.data = [j \in (DOMAIN m.data) \ {k} |-> m.data[j]]]

\* SkipList.Delete
MemDelete(m, k) ==
    LET entry == SkipGet(m, k) IN
    IF entry.type = DeleteEntry THEN m
    ELSE LET m2 == SkipPut(m, k, [type |-> DeleteEntry, value |-> Nil])
         IN [m2 EXCEPT !.size = m2.size - ValLen(entry.value)]

RECURSIVE KeysAsc(_)
KeysAsc(S) ==
    IF S = {} THEN <<>>
    ELSE LET lo == CHOOSE k \in S : \A j \in S : k <= j
         IN <<lo>> \o KeysAsc(S \ {lo})

MaxOf(S) == IF S = {} THEN 0 ELSE CHOOSE n \in S : \A j \in S : j <= n

\* a walk that yields the entries from the largest key down
EntriesMutant(m) ==
    LET ks == KeysAsc(DOMAIN m.data)
        n == Len(ks)
    IN [i \in 1..n |-> [type |-> PutEntry, key |-> ks[n + 1 - i],
                        value |-> m.data[ks[n + 1 - i]].value]]

\* SkipList.Entries: level-0 walk; the result entries carry Key and Value
\* only, so their Type is the zero value (PutEntry)
Entries(m) ==
    LET ks == KeysAsc(DOMAIN m.data) IN
    [i \in 1..Len(ks) |-> [type |-> PutEntry, key |-> ks[i],
                           value |-> m.data[ks[i]].value]]

\* flushMemtable's write loop: PutEntry or DeleteEntry per entry type
FlushData(m) ==
    LET es == Entries(m) IN
    [i \in 1..Len(es) |->
        IF es[i].type = DeleteEntry THEN Stored(DeleteEntry, es[i].key, Nil)
        ELSE Stored(PutEntry, es[i].key, es[i].value)]

\* ---------------------------------------------------------- SSTable reader
NotFound == [found |-> FALSE, value |-> Nil]
Hit(v) == [found |-> TRUE, value |-> v]

\* ordinals (1-based) of the data records that Writer.writeEntry indexes
IndexPositions(data, interval) == {i \in 1..Len(data) : (i - 1) % interval = 0}

\* an index search that stops below an index entry equal to the key
IndexFloorMutant(data, idx, k) == {i \in idx : data[i].key < k}

\* sort.Search for the first index key greater than the target, minus one:
\* the index entries whose key is <= the target
IndexFloor(data, idx, k) == {i \in idx : data[i].key <= k}

\* Reader.Get: sparse-index search, then a bounded scan of one block; a Delete
\* record and a miss both come back as the "key not found" error
ReaderGet(data, interval, k) ==
    LET idx   == IndexPositions(data, interval)
        below == IndexFloor(data, idx, k)
        miss  == [err |-> TRUE, type |-> PutEntry, value |-> Nil]
    IN  IF below = {} THEN miss
        ELSE LET start == CHOOSE i \in below : \A j \in below : j <= i
                 later == {i \in idx : i > start}
                 stop  == IF later = {} THEN Len(data) + 1
                          ELSE CHOOSE i \in later : \A j \in later : i <= j
                 scanned == {i \in start..(stop - 1) :
                               \A j \in start..(i - 1) : data[j].key <= k}
                 ms    == {i \in scanned : data[i].key = k}
             IN  IF ms = {} THEN miss
                 ELSE LET r == data[CHOOSE i \in ms : \A j \in ms : j <= i]
                      IN IF r.type = DeleteEntry THEN miss
                         ELSE [err |-> FALSE, type |-> r.type, value |-> r.value]

\* an iterator that hands out the stored bytes of a Delete record
IterValueMutant(e) == e.value

\* Iterator.Value: nil for a Delete record
IterValue(e) == IF e.type = DeleteEntry THEN Nil ELSE e.value

\* NewIterator and Next until it returns false: Type, Key, Value of every
\* record from offset 0 up to the index section; no read fails on a finished
\* file
Iterate(data) ==
    [recs |-> [i \in 1..Len(data) |-> [type |-> data[i].type, key |-> data[i].key,
                                       value |-> IterValue(data[i])]],
     err |-> FALSE]

\* ---------------------------------------------------------- SSTable writer
\* WriteEntry / DeleteEntry for every record, then Close; the data section
WriteTable(recs) ==
    [i \in 1..Len(recs) |->
        IF recs[i].type = DeleteEntry THEN Stored(DeleteEntry, recs[i].key, Nil)
        ELSE Stored(PutEntry, recs[i].key, recs[i].value)]

\* ------------------------------------------------------------------ merger
\* heap order of Merger.Merge: smaller key first, on equal keys the source
\* added later first
MergeBeforeMutant(ka, ia, kb, ib) == ka < kb \/ (ka = kb /\ ia <= ib)

MergeBefore(ka, ia, kb, ib) == ka < kb \/ (ka = kb /\ ia >= ib)

\* a merge that leaves the deleted items out of the output
MergeWriteMutant(out, item) ==
    IF item.type = DeleteEntry THEN out
    ELSE Append(out, Stored(PutEntry, item.key, item.value))

\* "Write current key to output": output.DeleteEntry for a deleted item,
\* output.PutEntry otherwise
MergeWrite(out, item) ==
    Append(out, IF item.type = DeleteEntry THEN Stored(DeleteEntry, item.key, Nil)
                ELSE Stored(PutEntry, item.key, item.value))

\* Merger.Merge over the sources' data sections (earliest first, priority =
\* position); pos[i] is the iterator position of source i, last the last key
\* written (0 = none)
\* one turn of the merge loop: pop the heap's top, advance its iterator,
\* write the item unless its key is the last key written
MergePop(srcs, live, pos, last, out) ==
    LET top == CHOOSE i \in live : \A j \in live :
                  MergeBefore(srcs[i][pos[i]].key, i, srcs[j][pos[j]].key, j)
        item == srcs[top][pos[top]]
        adv  == [pos EXCEPT ![top] = pos[top] + 1]
    IN  IF last # 0 /\ item.key = last
        THEN [pos |-> adv, last |-> last, out |-> out]
        ELSE [pos |-> adv, last |-> item.key, out |-> MergeWrite(out, item)]

\* the loop "for h.Len() > 0"; st is what the loop carries from turn to
\* turn, worked out once per turn
RECURSIVE MergeRun(_, _)
MergeRun(srcs, st) ==
    LET live == {i \in 1..Len(srcs) : st.pos[i] <= Len(srcs[i])} IN
    IF live = {} THEN st.out
    ELSE CHOOSE res \in {MergeRun(srcs, nxt) :
                            nxt \in {MergePop(srcs, live, st.pos, st.last, st.out)}} : TRUE

Merge(srcs) ==
    CHOOSE res \in {MergeRun(s, [pos |-> [i \in 1..Len(s) |-> 1], last |-> 0,
                                  out |-> <<>>]) : s \in {srcs}} : TRUE


\* ------------------------------------------------------------------- state
VARIABLES
    phase,          \* "new" (not yet opened), "open", "closing", "closed" (Close
                    \* returned), "crashed"
    cfg,            \* effective configuration of the engine
    memtable,       \* active memtable
    immArr,         \* backing array of the immutableMemtables slice
    immLen,         \* length of the immutableMemtables slice
    walFile,        \* records of wal.log that are on disk
    walBuf,         \* records accepted by the WAL and not yet written
    walClosed,      \* the WAL has been closed
    disk,           \* SSTable files: [num, tier, data, complete]
    dirs,           \* tier numbers n for which sstables/T<n> exists
    tiers,          \* tiers vector: sequence of sequences of reader (file) numbers
    closedReaders,  \* readers whose Close has been called
    sstCounter,     \* atomic file-number counter
    mu,             \* engine lock: 0 when free, 1 while a compaction holds it
    flushTasks,     \* background flush tasks
    compTasks,      \* bag of background compactTiers tasks
    closePc,        \* position of the Close call
    closeFlush,     \* Close's synchronous flush in progress
    closeIdx,       \* index of Close's loop over the immutable memtables
    closeSnap,      \* slice header that loop ranges over
    script,         \* remaining writes of a scripted client
    scripted,       \* the client is a scripted one
    lastWrite,      \* history: last successful write per key
    lastMem,        \* history: id of the memtable that took that write
    flushedLast,    \* history: keys whose last write is in a finished SSTable
    crashedSince,   \* history: keys whose last write precedes a crash
    crashSafe,      \* history: keys the last crash must not have lost
    fresh,          \* history: no write and no Close since the last Open
    stop,           \* history: how the previous session ended
    preClose,       \* history: Get results when Close was called
    writes,         \* history: number of Set/Delete calls
    restarts,       \* history: number of re-Opens
    nextMemId,      \* next memtable identity
    created,        \* history: numbers of the files created since the last
                    \* Open, in creation order
    openMax,        \* history: largest file number on disk at the last Open
    used,           \* history: bag of the numbers SSTable files have received
    gen,            \* history: file number -> id of the newest memtable in it
    lastErr,        \* history: error of the last Set/Delete call ("" = none)
    arg,            \* input of a component exercised on its own
    ret,            \* its result
    unsync          \* engine fields touched without holding mu since Open

engineVars == <<memtable, immArr, immLen, tiers, closedReaders, sstCounter, mu>>
walVars    == <<walFile, walBuf, walClosed>>
diskVars   == <<disk, dirs>>
taskVars   == <<flushTasks, compTasks>>
closeVars  == <<closePc, closeFlush, closeIdx, closeSnap>>
obsVars    == <<created, openMax, used, gen, lastErr>>
coreHist   == <<lastWrite, lastMem, flushedLast, crashedSince, crashSafe, fresh,
                stop, preClose, writes, restarts, nextMemId>>
histVars   == <<coreHist, obsVars>>
unitVars   == <<arg, ret>>
clientVars == <<script, scripted, unitVars>>
vars == <<phase, cfg, engineVars, walVars, diskVars, taskVars, closeVars, clientVars,
          histVars, unsync>>

ScriptKeys == 1..5
AllKeys == Keys \cup ScriptKeys
NoWrite == [type |-> 2, value |-> Nil]
NoMem == [id |-> 0, data |-> <<>>, size |-> 0]
NoTask == [mem |-> NoMem, pc |-> "none", num |-> 0]
NoSnap == [arr |-> <<>>, n |-> 0, shared |-> TRUE]

Immutables == SubSeq(immArr, 1, immLen)

FileOf(num) == CHOOSE f \in disk : f.num = num
Exists(num) == \E f \in disk : f.num = num

\* what a reader serves: nothing once closed (every read fails) or when its
\* file has no footer
ReaderData(num) ==
    IF num \in closedReaders \/ ~Exists(num) \/ ~FileOf(num).complete THEN <<>>
    ELSE FileOf(num).data

\* --------------------------------------------------------------- Engine.Get
EntryResult(e) == IF e.type = DeleteEntry THEN NotFound ELSE Hit(e.value)

RECURSIVE SearchMemtables(_, _)
SearchMemtables(ms, k) ==
    IF ms = <<>> THEN [hit |-> FALSE, res |-> NotFound]
    ELSE IF HasKey(Head(ms), k)
         THEN [hit |-> TRUE, res |-> EntryResult(Head(ms).data[k])]
         ELSE SearchMemtables(Tail(ms), k)

\* one tier, from the last reader down to the first
RECURSIVE SearchTier(_, _)
SearchTier(tier, k) ==
    IF tier = <<>> THEN [hit |-> FALSE, res |-> NotFound]
    ELSE LET r == ReaderGet(ReaderData(tier[Len(tier)]), cfg.indexInterval, k) IN
         IF ~r.err THEN [hit |-> TRUE, res |-> EntryResult(r)]
         ELSE SearchTier(SubSeq(tier, 1, Len(tier) - 1), k)

RECURSIVE SearchTiers(_, _)
SearchTiers(ts, k) ==
    IF ts = <<>> THEN NotFound
    ELSE LET r == SearchTier(Head(ts), k) IN
         IF r.hit THEN r.res ELSE SearchTiers(Tail(ts), k)

\* Engine.Get: active memtable, immutable memtables in queue order, then the
\* tiers from T0 upward
GetThrough(ts, k) ==
    IF HasKey(memtable, k) THEN EntryResult(memtable.data[k])
    ELSE LET r == SearchMemtables(Immutables, k) IN
         IF r.hit THEN r.res ELSE SearchTiers(ts, k)

EngineGet(k) == GetThrough(tiers, k)

\* ------------------------------------------------------------------- Init
\* the fields of a new engine and the history, whatever the directory holds
InitEngine ==
    /\ memtable = NewMemtable(1)
    /\ immArr = <<>> /\ immLen = 0
    /\ walFile = <<>> /\ walBuf = <<>>
    /\ tiers = <<>> /\ closedReaders = {} /\ sstCounter = 0 /\ mu = 0
    /\ flushTasks = {} /\ compTasks = EmptyBag
    /\ closePc = "idle" /\ closeFlush = NoTask /\ closeIdx = 0 /\ closeSnap = NoSnap
    /\ lastWrite = [k \in AllKeys |-> NoWrite]
    /\ lastMem = [k \in AllKeys |-> 0]
    /\ flushedLast = {} /\ crashedSince = {} /\ crashSafe = {}
    /\ fresh = TRUE /\ stop = "none"
    /\ preClose = <<>>
    /\ writes = 0 /\ restarts = 0 /\ nextMemId = 2
    /\ created = <<>> /\ openMax = 0
    /\ gen = <<>> /\ lastErr = ""
    /\ unsync = {}

\* an engine opened on an empty directory
InitCommon ==
    /\ phase = "open"
    /\ disk = {} /\ dirs = {} /\ used = EmptyBag
    /\ walClosed = FALSE
    /\ InitEngine

Init ==
    /\ InitCommon
    /\ script = <<>> /\ scripted = FALSE
    /\ arg = <<>> /\ ret = <<>>
    /\ \E ms \in MemSizeOptions, tp \in TablesPerTierOptions :
         cfg = FillDefaults([maxMemtableSize |-> ms, maxTablesPerTier |-> tp,
                             indexInterval |-> 0])


\* --------------------------------------------------- immutableMemtables slice
\* append(e.immutableMemtables, m): in place while capacity allows, else into
\* a new array of twice the capacity
Grown(m) ==
    IF immLen < Len(immArr) THEN [immArr EXCEPT ![immLen + 1] = m]
    ELSE LET cap == IF Len(immArr) = 0 THEN 1 ELSE 2 * Len(immArr) IN
         [i \in 1..cap |-> IF i <= immLen THEN immArr[i]
                           ELSE IF i = immLen + 1 THEN m ELSE NoMem]

\* append(s[:i], s[i+1:]...) for the first i holding the memtable: the tail is
\* shifted left inside the same array and the last slot keeps its old content
Removed(id) ==
    LET at == {i \in 1..immLen : immArr[i].id = id} IN
    IF at = {} THEN immArr
    ELSE LET i == CHOOSE x \in at : \A y \in at : x <= y IN
         [j \in 1..Len(immArr) |->
            IF j >= i /\ j < immLen THEN immArr[j + 1] ELSE immArr[j]]

RemovedLen(id) ==
    IF \E i \in 1..immLen : immArr[i].id = id THEN immLen - 1 ELSE immLen

\* CompactionManager.shouldCompactTier on a tiers vector (tier is 0-based)
ShouldCompactTier(ts, tier) ==
    IF tier >= Len(ts) THEN FALSE
    ELSE Len(ts[tier + 1]) > cfg.maxTablesPerTier

\* a join that counts the flush goroutines only
QuiescentMutant == flushTasks = {}

\* e.wg.Wait() returns: every goroutine added to the group is done
Quiescent == flushTasks = {} /\ compTasks = EmptyBag

\* ---------------------------------------------------------------------- WAL
\* AppendSet / AppendDelete: the serialised record is buffered
WalAppend(rec) == walBuf' = Append(walBuf, rec)

\* WAL.Close: drain the buffer, sync, close the file
WalClose ==
    /\ walFile' = walFile \o walBuf
    /\ walBuf' = <<>>
    /\ walClosed' = TRUE

\* ------------------------------------------------------------ Set / Delete
\* WAL append, memtable update, history
Accept(type, k, v) ==
    /\ phase \in {"open", "closing", "closed"}
    /\ mu = 0
    /\ ~walClosed
    /\ WalAppend([type |-> type, key |-> k, value |-> v])
    /\ lastWrite' = [lastWrite EXCEPT ![k] = [type |-> type, value |-> v]]
    /\ lastMem' = [lastMem EXCEPT ![k] = memtable.id]
    /\ flushedLast' = flushedLast \ {k}
    /\ crashedSince' = crashedSince \ {k}
    /\ crashSafe' = {}
    /\ fresh' = FALSE
    /\ preClose' = <<>>
    /\ writes' = writes + 1
    /\ lastErr' = ""
    /\ UNCHANGED <<created, openMax, used, gen>>
    /\ UNCHANGED unsync

\* Engine.Put and Engine.Delete when the WAL append returns an error: the
\* error is returned before the memtable is touched
PutOnWalErrorMutant(m, k, v) == MemPut(m, k, v)

PutOnWalError(m, k, v) == m

DeleteOnWalErrorMutant(m, k) == MemDelete(m, k)

DeleteOnWalError(m, k) == m

\* a Set or Delete whose WAL append failed because the WAL is closed
Rejected(m) ==
    /\ phase \in {"open", "closing", "closed"}
    /\ mu = 0
    /\ memtable' = m
    /\ lastErr' = "closed"
    /\ UNCHANGED <<phase, cfg, immArr, immLen, tiers, closedReaders, sstCounter, mu,
                   walVars, diskVars, taskVars, closeVars, coreHist, created,
                   openMax, used, gen, unsync>>

\* Engine.Put
PutBody(k, v) ==
    /\ Accept(PutEntry, k, v)
    /\ LET m == MemPut(memtable, k, v) IN
       IF m.size > cfg.maxMemtableSize
       THEN /\ immArr' = Grown(m)
            /\ immLen' = immLen + 1
            /\ closeSnap' = IF closeSnap.shared /\ immLen >= Len(immArr)
                              /\ closePc \in {"imm", "immflush"}
                            THEN [closeSnap EXCEPT !.arr = immArr, !.shared = FALSE]
                            ELSE closeSnap
            /\ memtable' = NewMemtable(nextMemId)
            /\ nextMemId' = nextMemId + 1
            /\ flushTasks' = flushTasks \cup {[mem |-> m, pc |-> "alloc", num |-> 0]}
       ELSE /\ memtable' = m
            /\ UNCHANGED <<immArr, immLen, closeSnap, nextMemId, flushTasks>>
    /\ UNCHANGED <<phase, cfg, tiers, closedReaders, sstCounter, mu, walFile,
                   walClosed, diskVars, compTasks, closePc, closeFlush, closeIdx,
                   restarts, stop>>

Put(k) ==
    /\ ~scripted
    /\ IF walClosed
       THEN Rejected(PutOnWalError(memtable, k, ValueOf(writes + 1)))
       ELSE writes < MaxWrites /\ PutBody(k, ValueOf(writes + 1))
    /\ UNCHANGED clientVars

\* Engine.Delete: no size test, no freeze
DeleteBody(k) ==
    /\ Accept(DeleteEntry, k, Nil)
    /\ memtable' = MemDelete(memtable, k)
    /\ UNCHANGED <<phase, cfg, immArr, immLen, tiers, closedReaders,
                   sstCounter, mu, walFile, walClosed, diskVars, taskVars,
                   closeVars, restarts, nextMemId, stop>>

Delete(k) ==
    /\ ~scripted
    /\ IF walClosed
       THEN Rejected(DeleteOnWalError(memtable, k))
       ELSE writes < MaxWrites /\ DeleteBody(k)
    /\ UNCHANGED clientVars

\* a scripted client: the next Set of the script once background work is done
ScriptSet ==
    /\ script # <<>>
    /\ Quiescent
    /\ PutBody(Head(script).key, Head(script).value)
    /\ script' = Tail(script)
    /\ UNCHANGED <<scripted, unitVars>>

\* the WAL flusher: buffered records go to the file and are synced
WALFlush ==
    /\ ~walClosed
    /\ phase \in {"open", "closing"}
    /\ walBuf # <<>>
    /\ walFile' = walFile \o walBuf
    /\ walBuf' = <<>>
    /\ UNCHANGED unsync
    /\ UNCHANGED <<phase, cfg, engineVars, walClosed, diskVars, taskVars, closeVars,
                   clientVars, histVars>>

\* the task flushMemtable starts with "go compactTiers(0)"
NewCompTask == [tier |-> 0, pc |-> "check", inputs |-> <<>>, out |-> 0]

\* sstCounter.Add(1): the incremented value, which is the new file's number
NextNumber(c) == c + 1

\* file numbers a run may hand out
FileCap == IF scripted THEN MaxScriptFiles ELSE MaxFiles

\* ------------------------------------------------------------ flushMemtable
\* Entries, MkdirAll(T0), sstCounter.Add(1): the file name is fixed
FlushAllocStep ==
    /\ sstCounter < FileCap
    /\ sstCounter' = NextNumber(sstCounter)
    /\ dirs' = dirs \cup {0}

\* NewWriter: an empty file exists
FlushCreateStep(t) ==
    /\ disk' = disk \cup {[num |-> t.num, tier |-> 0, data |-> <<>>,
                           complete |-> FALSE]}
    /\ created' = Append(created, t.num)
    /\ used' = used (+) SetToBag({t.num})
    /\ UNCHANGED <<coreHist, openMax, gen, lastErr>>

\* the newest memtable whose records file num holds
SetGen(num, id) ==
    [n \in (DOMAIN gen) \cup {num} |-> IF n = num THEN id ELSE gen[n]]

\* the write loop, writer.Close (index, footer, fsync) and NewReader
FlushWriteStep(t) ==
    /\ disk' = (disk \ {FileOf(t.num)}) \cup
               {[num |-> t.num, tier |-> 0, data |-> FlushData(t.mem),
                 complete |-> TRUE]}
    /\ flushedLast' = flushedLast \cup {k \in AllKeys : lastMem[k] = t.mem.id}
    /\ gen' = SetGen(t.num, t.mem.id)
    /\ UNCHANGED <<lastWrite, lastMem, crashedSince, crashSafe, fresh, stop, preClose,
                   writes, restarts, nextMemId, created, openMax, used, lastErr>>

\* under e.mu: register the reader in T0, drop the memtable from the
\* immutable queue, spawn compactTiers(0) when T0 is over the threshold
FlushRegisterStep(t) ==
    /\ mu = 0
    /\ LET ts == IF tiers = <<>> THEN << <<t.num>> >>
                 ELSE [tiers EXCEPT ![1] = Append(tiers[1], t.num)]
       IN /\ tiers' = ts
          /\ compTasks' = IF ShouldCompactTier(ts, 0)
                          THEN compTasks (+) SetToBag({NewCompTask})
                          ELSE compTasks
    /\ immArr' = Removed(t.mem.id)
    /\ immLen' = RemovedLen(t.mem.id)

FlushAlloc(t) ==
    /\ t \in flushTasks /\ t.pc = "alloc"
    /\ phase \in {"open", "closing"}
    /\ FlushAllocStep
    /\ flushTasks' = (flushTasks \ {t}) \cup
                     {[t EXCEPT !.pc = "create", !.num = NextNumber(sstCounter)]}
    /\ UNCHANGED unsync
    /\ UNCHANGED <<phase, cfg, memtable, immArr, immLen, tiers, closedReaders, mu,
                   walVars, disk, compTasks, closeVars, clientVars, histVars>>

FlushCreate(t) ==
    /\ t \in flushTasks /\ t.pc = "create"
    /\ phase \in {"open", "closing"}
    /\ FlushCreateStep(t)
    /\ flushTasks' = (flushTasks \ {t}) \cup {[t EXCEPT !.pc = "write"]}
    /\ UNCHANGED unsync
    /\ UNCHANGED <<phase, cfg, engineVars, walVars, dirs, compTasks, closeVars,
                   clientVars>>

FlushWrite(t) ==
    /\ t \in flushTasks /\ t.pc = "write"
    /\ phase \in {"open", "closing"}
    /\ FlushWriteStep(t)
    /\ flushTasks' = (flushTasks \ {t}) \cup {[t EXCEPT !.pc = "register"]}
    /\ UNCHANGED unsync
    /\ UNCHANGED <<phase, cfg, engineVars, walVars, dirs, compTasks, closeVars,
                   clientVars>>

FlushRegister(t) ==
    /\ t \in flushTasks /\ t.pc = "register"
    /\ phase \in {"open", "closing"}
    /\ FlushRegisterStep(t)
    /\ flushTasks' = flushTasks \ {t}
    /\ UNCHANGED unsync
    /\ UNCHANGED <<phase, cfg, memtable, closedReaders, sstCounter, mu, walVars,
                   diskVars, closeVars, clientVars, histVars>>


\* -------------------------------------------------------------- compaction
SetTask(c, d) == compTasks' = (compTasks (-) SetToBag({c})) (+) SetToBag({d})

\* compactTiers: the loop condition and the eligibility test under RLock
CompCheck(c) ==
    /\ BagIn(c, compTasks) /\ c.pc = "check"
    /\ phase \in {"open", "closing"}
    /\ mu = 0
    /\ IF c.tier < Len(tiers) /\ ShouldCompactTier(tiers, c.tier)
       THEN SetTask(c, [c EXCEPT !.pc = "begin"])
       ELSE compTasks' = compTasks (-) SetToBag({c})
    /\ unsync' = unsync \cup {"tiers"}
    /\ UNCHANGED <<phase, cfg, engineVars, walVars, diskVars, flushTasks, closeVars,
                   clientVars, histVars>>

\* a compaction that writes its output into the directory of its input tier
OutputTierMutant(tier) == tier

\* compact's generateOutputPath(tier + 1)
OutputTier(tier) == tier + 1

\* a compaction that enters without waiting for the lock
LockGrantedMutant(m) == TRUE

\* cm.engine.mu.Lock() returns once no other goroutine holds the lock
LockGranted(m) == m = 0

\* a compaction that takes its inputs and goes on without the lock
LockForCompactionMutant(m) == m

\* "Acquire write lock for the entire compaction operation": the state of
\* e.mu from compact's Lock to its deferred Unlock
LockForCompaction(m) == 1

\* compact: Lock, take the inputs, generateOutputPath (MkdirAll,
\* sstCounter.Add(1)), extend tiers
CompBegin(c) ==
    /\ BagIn(c, compTasks) /\ c.pc = "begin"
    /\ phase \in {"open", "closing"}
    /\ LockGranted(mu)
    /\ LET inputs == tiers[c.tier + 1] IN
       IF inputs = <<>>
       THEN /\ SetTask(c, [c EXCEPT !.tier = c.tier + 1, !.pc = "check"])
            /\ UNCHANGED <<mu, sstCounter, tiers, dirs>>
       ELSE /\ sstCounter < FileCap
            /\ mu' = LockForCompaction(mu)
            /\ sstCounter' = NextNumber(sstCounter)
            /\ dirs' = dirs \cup {OutputTier(c.tier)}
            /\ tiers' = IF Len(tiers) <= c.tier + 1 THEN Append(tiers, <<>>) ELSE tiers
            /\ SetTask(c, [c EXCEPT !.pc = "create", !.inputs = inputs,
                                    !.out = NextNumber(sstCounter)])
    /\ UNCHANGED unsync
    /\ UNCHANGED <<phase, cfg, memtable, immArr, immLen, closedReaders, walVars,
                   disk, flushTasks, closeVars, clientVars, histVars>>

\* compact: NewWriter on the output path
CompCreate(c) ==
    /\ BagIn(c, compTasks) /\ c.pc = "create"
    /\ phase \in {"open", "closing"}
    /\ disk' = disk \cup {[num |-> c.out, tier |-> OutputTier(c.tier),
                           data |-> <<>>, complete |-> FALSE]}
    /\ created' = Append(created, c.out)
    /\ used' = used (+) SetToBag({c.out})
    /\ SetTask(c, [c EXCEPT !.pc = "merge"])
    /\ UNCHANGED unsync
    /\ UNCHANGED <<phase, cfg, engineVars, walVars, dirs, flushTasks, closeVars,
                   clientVars, coreHist, openMax, gen, lastErr>>

GenOf(num) == IF num \in DOMAIN gen THEN gen[num] ELSE 0

\* what the merge iterators of a compaction read from its inputs
SourcesOf(c) == [i \in 1..Len(c.inputs) |-> ReaderData(c.inputs[i])]

\* Merger.Merge into the output writer, ending with Finish
CompMergeStep(c, srcs) ==
    /\ BagIn(c, compTasks) /\ c.pc = "merge"
    /\ phase \in {"open", "closing"}
    /\ disk' = (disk \ {FileOf(c.out)}) \cup
               {[num |-> c.out, tier |-> FileOf(c.out).tier, complete |-> TRUE,
                 data |-> Merge(srcs)]}
    /\ SetTask(c, [c EXCEPT !.pc = "cleanup"])
    /\ gen' = SetGen(c.out, MaxOf({GenOf(c.inputs[i]) : i \in 1..Len(c.inputs)}))
    /\ UNCHANGED unsync
    /\ UNCHANGED <<phase, cfg, engineVars, walVars, dirs, flushTasks, closeVars,
                   clientVars, coreHist, created, openMax, used, lastErr>>

CompMerge(c) == CompMergeStep(c, SourcesOf(c))

\* a merge during which ReadEntryAt fails on input i after n records:
\* Iterator.Next keeps the error and returns false, the merger takes the
\* source as exhausted and finishes the output
CompMergeReadFail(c) ==
    \E i \in 1..Len(c.inputs) :
        \E n \in 0..(Len(SourcesOf(c)[i]) - 1) :
            CompMergeStep(c, [SourcesOf(c) EXCEPT ![i] = SubSeq(@, 1, n)])

\* NewWriter returns an error: every input reader is closed and compact
\* returns, which releases the lock
CompCreateFail(c) ==
    /\ BagIn(c, compTasks) /\ c.pc = "create"
    /\ phase \in {"open", "closing"}
    /\ closedReaders' = closedReaders \cup {c.inputs[i] : i \in 1..Len(c.inputs)}
    /\ mu' = 0
    /\ SetTask(c, [c EXCEPT !.pc = "failed"])
    /\ UNCHANGED unsync
    /\ UNCHANGED <<phase, cfg, memtable, immArr, immLen, tiers, sstCounter,
                   walVars, diskVars, flushTasks, closeVars, clientVars, histVars>>

\* compactTiers returns the error and the goroutine logs it
CompLogError(c) ==
    /\ BagIn(c, compTasks) /\ c.pc = "failed"
    /\ compTasks' = compTasks (-) SetToBag({c})
    /\ UNCHANGED unsync
    /\ UNCHANGED <<phase, cfg, engineVars, walVars, diskVars, flushTasks, closeVars,
                   clientVars, histVars>>

\* finalizeAndCleanup: close the output, close and remove every input
CompCleanup(c) ==
    /\ BagIn(c, compTasks) /\ c.pc = "cleanup"
    /\ phase \in {"open", "closing"}
    /\ closedReaders' = closedReaders \cup {c.inputs[i] : i \in 1..Len(c.inputs)}
    /\ disk' = {f \in disk : f.num \notin {c.inputs[i] : i \in 1..Len(c.inputs)}}
    /\ SetTask(c, [c EXCEPT !.pc = "swap"])
    /\ UNCHANGED unsync
    /\ UNCHANGED <<phase, cfg, memtable, immArr, immLen, tiers, sstCounter, mu,
                   walVars, dirs, flushTasks, closeVars, clientVars, histVars>>

\* "Update tiers structure": the input tier emptied, the output appended to
\* the next one
SwappedTiers(c) ==
    [tiers EXCEPT ![c.tier + 1] = <<>>,
                  ![c.tier + 2] = Append(tiers[c.tier + 2], c.out)]

\* a compact that returns with the engine lock still held
UnlockMutant(m) == m

\* "defer cm.engine.mu.Unlock()" of compact
Unlock(m) == 0

\* NewReader on the output, the tier swap, Unlock; compactTiers moves on
CompSwap(c) ==
    /\ BagIn(c, compTasks) /\ c.pc = "swap"
    /\ phase \in {"open", "closing"}
    /\ tiers' = SwappedTiers(c)
    /\ mu' = Unlock(mu)
    /\ SetTask(c, [c EXCEPT !.tier = c.tier + 1, !.pc = "check", !.inputs = <<>>,
                            !.out = 0])
    /\ UNCHANGED unsync
    /\ UNCHANGED <<phase, cfg, memtable, immArr, immLen, closedReaders, sstCounter,
                   walVars, diskVars, flushTasks, closeVars, clientVars, histVars>>


\* -------------------------------------------------------------------- Close
GetAll == [k \in AllKeys |-> EngineGet(k)]

\* the call enters once.Do
CloseStartStep ==
    /\ phase = "open" /\ closePc = "idle"
    /\ phase' = "closing"
    /\ closePc' = "mem"
    /\ preClose' = IF mu = 0 /\ Quiescent THEN GetAll ELSE <<>>
    /\ fresh' = FALSE
    /\ UNCHANGED unsync
    /\ UNCHANGED <<cfg, engineVars, walVars, diskVars, taskVars, closeFlush, closeIdx,
                   closeSnap, clientVars, lastWrite, lastMem, flushedLast, crashedSince,
                   crashSafe, stop, writes, restarts, nextMemId, obsVars>>

CloseStart ==
    /\ ~scripted
    /\ restarts < MaxRestarts
    /\ CloseStartStep

\* "if e.memtable.Size() > 0": swap in a fresh memtable and flush the old one
CloseMemtable ==
    /\ closePc = "mem"
    /\ IF memtable.size > 0
       THEN /\ closeFlush' = [mem |-> memtable, pc |-> "alloc", num |-> 0]
            /\ memtable' = NewMemtable(nextMemId)
            /\ nextMemId' = nextMemId + 1
            /\ closePc' = "memflush"
       ELSE /\ closePc' = "immstart"
            /\ UNCHANGED <<closeFlush, memtable, nextMemId>>
    /\ unsync' = unsync \cup {"memtable"}
    /\ UNCHANGED <<phase, cfg, immArr, immLen, tiers, closedReaders, sstCounter, mu,
                   walVars, diskVars, taskVars, closeIdx, closeSnap, clientVars,
                   lastWrite, lastMem, flushedLast, crashedSince, crashSafe, fresh,
                   stop, preClose, writes, restarts, obsVars>>

\* the synchronous flushMemtable calls of Close
CloseFlushAlloc ==
    /\ closePc \in {"memflush", "immflush"} /\ closeFlush.pc = "alloc"
    /\ FlushAllocStep
    /\ closeFlush' = [closeFlush EXCEPT !.pc = "create", !.num = NextNumber(sstCounter)]
    /\ UNCHANGED unsync
    /\ UNCHANGED <<phase, cfg, memtable, immArr, immLen, tiers, closedReaders, mu,
                   walVars, disk, taskVars, closePc, closeIdx, closeSnap, clientVars,
                   histVars>>

CloseFlushCreate ==
    /\ closePc \in {"memflush", "immflush"} /\ closeFlush.pc = "create"
    /\ FlushCreateStep(closeFlush)
    /\ closeFlush' = [closeFlush EXCEPT !.pc = "write"]
    /\ UNCHANGED unsync
    /\ UNCHANGED <<phase, cfg, engineVars, walVars, dirs, taskVars, closePc, closeIdx,
                   closeSnap, clientVars>>

CloseFlushWrite ==
    /\ closePc \in {"memflush", "immflush"} /\ closeFlush.pc = "write"
    /\ FlushWriteStep(closeFlush)
    /\ closeFlush' = [closeFlush EXCEPT !.pc = "register"]
    /\ UNCHANGED unsync
    /\ UNCHANGED <<phase, cfg, engineVars, walVars, dirs, taskVars, closePc, closeIdx,
                   closeSnap, clientVars>>

CloseFlushRegister ==
    /\ closePc \in {"memflush", "immflush"} /\ closeFlush.pc = "register"
    /\ FlushRegisterStep(closeFlush)
    /\ closeFlush' = NoTask
    /\ IF closePc = "memflush"
       THEN closePc' = "immstart" /\ UNCHANGED closeIdx
       ELSE closePc' = "imm" /\ closeIdx' = closeIdx + 1
    /\ UNCHANGED unsync
    /\ UNCHANGED <<phase, cfg, memtable, closedReaders, sstCounter, mu, walVars,
                   diskVars, flushTasks, closeSnap, clientVars, histVars>>

\* "for _, immutable := range e.immutableMemtables": the slice header is read
\* once, the elements are read from its array as the loop reaches them
CloseImmStart ==
    /\ closePc = "immstart"
    /\ closeSnap' = [arr |-> <<>>, n |-> immLen, shared |-> TRUE]
    /\ closeIdx' = 1
    /\ closePc' = "imm"
    /\ unsync' = unsync \cup {"immutableMemtables"}
    /\ UNCHANGED <<phase, cfg, engineVars, walVars, diskVars, taskVars, closeFlush,
                   clientVars, histVars>>

CloseImmNext ==
    /\ closePc = "imm"
    /\ IF closeIdx > closeSnap.n
       THEN /\ closePc' = "readers"
            /\ closeSnap' = NoSnap
            /\ closeIdx' = 0
            /\ UNCHANGED closeFlush
       ELSE /\ closeFlush' = [mem |-> IF closeSnap.shared THEN immArr[closeIdx]
                                      ELSE closeSnap.arr[closeIdx],
                              pc |-> "alloc", num |-> 0]
            /\ closePc' = "immflush"
            /\ UNCHANGED <<closeSnap, closeIdx>>
    /\ UNCHANGED unsync
    /\ UNCHANGED <<phase, cfg, engineVars, walVars, diskVars, taskVars, clientVars,
                   histVars>>

\* "for _, tier := range e.tiers": every reader in the tiers vector is closed
CloseReaders ==
    /\ closePc = "readers"
    /\ closedReaders' = closedReaders \cup
           {tiers[i][j] : <<i, j>> \in {p \in (1..Len(tiers)) \X (1..sstCounter) :
                                          p[2] <= Len(tiers[p[1]])}}
    /\ closePc' = "wal"
    /\ unsync' = unsync \cup {"tiers"}
    /\ UNCHANGED <<phase, cfg, memtable, immArr, immLen, tiers, sstCounter, mu,
                   walVars, diskVars, taskVars, closeFlush, closeIdx, closeSnap,
                   clientVars, histVars>>

\* "if e.wal != nil": e.wal.Close()
CloseWAL ==
    /\ closePc = "wal"
    /\ WalClose
    /\ closePc' = "wait"
    /\ UNCHANGED unsync
    /\ UNCHANGED <<phase, cfg, engineVars, diskVars, taskVars, closeFlush, closeIdx,
                   closeSnap, clientVars, histVars>>

\* e.wg.Wait returns and Close with it
CloseWait ==
    /\ closePc = "wait"
    /\ Quiescent
    /\ closePc' = "done"
    /\ phase' = "closed"
    /\ UNCHANGED unsync
    /\ UNCHANGED <<cfg, engineVars, walVars, diskVars, taskVars, closeFlush, closeIdx,
                   closeSnap, clientVars, histVars>>

\* ------------------------------------------------------------ crash, Open
\* keys whose last write has reached wal.log
WalDurable == {k \in AllKeys : /\ lastWrite[k] # NoWrite
                               /\ \A i \in 1..Len(walBuf) : walBuf[i].key # k}

\* the process dies: memory and the WAL buffer are gone, the files stay
Crash ==
    /\ phase \in {"open", "closing"}
    /\ ~scripted
    /\ restarts < MaxRestarts
    /\ phase' = "crashed"
    /\ stop' = "crash"
    /\ crashSafe' = (WalDurable \cup flushedLast) \ crashedSince
    /\ crashedSince' = {k \in AllKeys : lastWrite[k] # NoWrite}
    /\ walBuf' = <<>>
    /\ flushTasks' = {} /\ compTasks' = EmptyBag
    /\ mu' = 0
    /\ closePc' = "idle" /\ closeFlush' = NoTask /\ closeIdx' = 0 /\ closeSnap' = NoSnap
    /\ memtable' = NewMemtable(nextMemId)
    /\ nextMemId' = nextMemId + 1
    /\ immArr' = <<>> /\ immLen' = 0
    /\ tiers' = <<>> /\ closedReaders' = {}
    /\ preClose' = <<>>
    /\ fresh' = FALSE
    /\ unsync' = {}
    /\ UNCHANGED <<cfg, sstCounter, walFile, walClosed, diskVars, clientVars, lastWrite,
                   lastMem, flushedLast, writes, restarts, obsVars>>

\* a replay whose switch applies the Delete records only
ApplyRecordMutant(m, rec) ==
    IF rec.type = DeleteEntry THEN MemDelete(m, rec.key) ELSE m

\* the switch inside OpenDB's replay loop
ApplyRecord(m, rec) ==
    IF rec.type = PutEntry THEN MemPut(m, rec.key, rec.value)
    ELSE IF rec.type = DeleteEntry THEN MemDelete(m, rec.key)
    ELSE m

\* a replay loop that applies the records last to first
RECURSIVE ReplayMutant(_, _)
ReplayMutant(m, log) ==
    IF log = <<>> THEN m
    ELSE ApplyRecord(ReplayMutant(m, Tail(log)), Head(log))

\* OpenDB's replay loop over the records of wal.log
RECURSIVE Replay(_, _)
Replay(m, log) ==
    IF log = <<>> THEN m
    ELSE Replay(ApplyRecord(m, Head(log)), Tail(log))

RECURSIVE NumsAsc(_)
NumsAsc(S) ==
    IF S = {} THEN <<>>
    ELSE LET lo == CHOOSE n \in S : \A j \in S : n <= j
         IN <<lo>> \o NumsAsc(S \ {lo})

\* parseTiers: one tier per T<n> directory, its files in name order; files in
\* skipped are those whose reader fails to open
ParseTiers(skipped) ==
    IF dirs = {} THEN <<>>
    ELSE [t \in 1..(MaxOf(dirs) + 1) |->
            NumsAsc({f.num : f \in {g \in disk : g.tier = t - 1 /\ g.num \notin skipped}})]

\* a restart that leaves the counter at zero
CounterNotRestored(files) == 0

\* a scan that counts the files whose reader opened with a footer only
CounterOfReadable(files) == MaxOf({f.num : f \in {g \in files : g.complete}})

\* parseTiers' maxSSTNumber: the largest number among the *.sst file names
RestoredCounter(files) == MaxOf({f.num : f \in files})

\* NewEngine and OpenDB on the same directory, after Close returned or after
\* a crash; a file without footer opens as an empty reader or fails to open
Open ==
    /\ phase \in {"new", "closed", "crashed"}
    /\ restarts < MaxRestarts
    /\ restarts' = restarts + 1
    /\ phase' = "open"
    /\ stop' = IF phase = "closed" THEN "close" ELSE stop
    /\ fresh' = TRUE
    /\ memtable' = Replay(NewMemtable(nextMemId), walFile)
    /\ nextMemId' = nextMemId + 1
    /\ immArr' = <<>> /\ immLen' = 0
    /\ \E skipped \in SUBSET {f.num : f \in {g \in disk : ~g.complete}} :
          tiers' = ParseTiers(skipped)
    /\ closedReaders' = {}
    /\ sstCounter' = RestoredCounter(disk)
    /\ openMax' = MaxOf({f.num : f \in disk})
    /\ created' = <<>>
    /\ lastErr' = ""
    /\ mu' = 0
    /\ walBuf' = <<>> /\ walClosed' = FALSE
    /\ closePc' = "idle" /\ closeFlush' = NoTask /\ closeIdx' = 0 /\ closeSnap' = NoSnap
    /\ unsync' = {}
    /\ UNCHANGED <<cfg, walFile, diskVars, taskVars, clientVars, lastWrite, lastMem,
                   flushedLast, crashedSince, crashSafe, preClose, writes, used, gen>>

\* --------------------------------------------------------------------- Next
Next ==
    \/ \E k \in Keys : Put(k)
    \/ \E k \in Keys : Delete(k)
    \/ WALFlush
    \/ \E t \in flushTasks : FlushAlloc(t)
    \/ \E t \in flushTasks : FlushCreate(t)
    \/ \E t \in flushTasks : FlushWrite(t)
    \/ \E t \in flushTasks : FlushRegister(t)
    \/ \E c \in BagToSet(compTasks) : CompCheck(c)
    \/ \E c \in BagToSet(compTasks) : CompBegin(c)
    \/ \E c \in BagToSet(compTasks) : CompCreate(c)
    \/ \E c \in BagToSet(compTasks) : CompMerge(c)
    \/ \E c \in BagToSet(compTasks) : CompCleanup(c)
    \/ \E c \in BagToSet(compTasks) : CompSwap(c)
    \/ CloseStart
    \/ CloseMemtable
    \/ CloseFlushAlloc
    \/ CloseFlushCreate
    \/ CloseFlushWrite
    \/ CloseFlushRegister
    \/ CloseImmStart
    \/ CloseImmNext
    \/ CloseReaders
    \/ CloseWAL
    \/ CloseWait
    \/ Crash
    \/ Open

Spec == Init /\ [][Next]_vars

\* ------------------------------------------------------ restart sessions
\* a client that uses the engine the way the restart tests do: it waits for
\* background work (WaitForFlush) before it calls Close, makes no call while
\* Close runs, then opens the directory again; it may call Set and Delete
\* before Close and after Close has returned
ClientPut(k) == phase \in {"open", "closed"} /\ Put(k)

ClientDelete(k) == phase \in {"open", "closed"} /\ Delete(k)

ClientClose == Quiescent /\ CloseStart

NextRestart ==
    \/ \E k \in Keys : ClientPut(k)
    \/ \E k \in Keys : ClientDelete(k)
    \/ \E t \in flushTasks : FlushAlloc(t)
    \/ \E t \in flushTasks : FlushCreate(t)
    \/ \E t \in flushTasks : FlushWrite(t)
    \/ \E t \in flushTasks : FlushRegister(t)
    \/ \E c \in BagToSet(compTasks) : CompCheck(c)
    \/ \E c \in BagToSet(compTasks) : CompBegin(c)
    \/ \E c \in BagToSet(compTasks) : CompCreate(c)
    \/ \E c \in BagToSet(compTasks) : CompMerge(c)
    \/ \E c \in BagToSet(compTasks) : CompCleanup(c)
    \/ \E c \in BagToSet(compTasks) : CompSwap(c)
    \/ ClientClose
    \/ CloseMemtable
    \/ CloseFlushAlloc
    \/ CloseFlushCreate
    \/ CloseFlushWrite
    \/ CloseFlushRegister
    \/ CloseImmStart
    \/ CloseImmNext
    \/ CloseReaders
    \/ CloseWAL
    \/ CloseWait
    \/ Open

SpecRestart == Init /\ [][NextRestart]_vars

\* ------------------------------------------------- scripted engine sessions
\* TestCompaction_MergedOutputContainsLatestValues: Put("a","old"),
\* WaitForFlush, Put("a","new"), WaitForFlush
MergedScript == <<[key |-> 1, value |-> "old"], [key |-> 1, value |-> "new"]>>

\* TestCompaction_PromotesToHigherTiers: five Put(k<i>, v<i>), WaitForFlush
\* after each
PromoteScript == [i \in 1..5 |-> [key |-> i, value |-> "v" \o ToString(i - 1)]]

\* the configurations the scripted sessions are opened with
ScriptRuns ==
    {[ms |-> 0, tp |-> 1, script |-> MergedScript],
     [ms |-> 1, tp |-> 1, script |-> MergedScript],
     [ms |-> 1, tp |-> 1, script |-> PromoteScript]}

InitScript ==
    /\ InitCommon
    /\ scripted = TRUE
    /\ arg = <<>> /\ ret = <<>>
    /\ \E r \in ScriptRuns :
         /\ script = r.script
         /\ cfg = FillDefaults([maxMemtableSize |-> r.ms, maxTablesPerTier |-> r.tp,
                                 indexInterval |-> 0])

NextScript ==
    \/ ScriptSet
    \/ WALFlush
    \/ \E t \in flushTasks : FlushAlloc(t)
    \/ \E t \in flushTasks : FlushCreate(t)
    \/ \E t \in flushTasks : FlushWrite(t)
    \/ \E t \in flushTasks : FlushRegister(t)
    \/ \E c \in BagToSet(compTasks) : CompCheck(c)
    \/ \E c \in BagToSet(compTasks) : CompBegin(c)
    \/ \E c \in BagToSet(compTasks) : CompCreate(c)
    \/ \E c \in BagToSet(compTasks) : CompMerge(c)
    \/ \E c \in BagToSet(compTasks) : CompCleanup(c)
    \/ \E c \in BagToSet(compTasks) : CompSwap(c)

SpecScript == InitScript /\ [][NextScript]_vars

\* ------------------------------------------ opening a prepared directory
\* TestEngine_SSTCounterRestoration: sstables/T0 holds files written by the
\* test (four placeholder bytes, or a finished empty table), then NewEngine
\* with MaxMemtableSize=1, OpenDB, one Put, WaitForFlush
SeedFile(n, kind) == [num |-> n, tier |-> 0, data |-> <<>>, complete |-> kind = "table"]

InitCounter ==
    /\ InitEngine
    /\ phase = "new"
    /\ walClosed = TRUE
    /\ scripted = TRUE
    /\ script = <<[key |-> 1, value |-> "v"]>>
    /\ arg = <<>> /\ ret = <<>>
    /\ cfg = FillDefaults([maxMemtableSize |-> 1, maxTablesPerTier |-> 0,
                            indexInterval |-> 0])
    /\ \E c \in [1..MaxSeed -> {"none", "bytes", "table"}] :
          /\ disk = {SeedFile(n, c[n]) : n \in {j \in 1..MaxSeed : c[j] # "none"}}
          /\ dirs = IF \E n \in 1..MaxSeed : c[n] # "none" THEN {0} ELSE {}
          /\ used = SetToBag({j \in 1..MaxSeed : c[j] # "none"})

NextCounter ==
    \/ Open
    \/ ScriptSet
    \/ \E t \in flushTasks : FlushAlloc(t)
    \/ \E t \in flushTasks : FlushCreate(t)
    \/ \E t \in flushTasks : FlushWrite(t)
    \/ \E t \in flushTasks : FlushRegister(t)
    \/ \E c \in BagToSet(compTasks) : CompCheck(c)
    \/ \E c \in BagToSet(compTasks) : CompBegin(c)
    \/ \E c \in BagToSet(compTasks) : CompCreate(c)
    \/ \E c \in BagToSet(compTasks) : CompMerge(c)
    \/ \E c \in BagToSet(compTasks) : CompCleanup(c)
    \/ \E c \in BagToSet(compTasks) : CompSwap(c)

SpecCounter == InitCounter /\ [][NextCounter]_vars

\* ------------------------------------- back-to-back writes and I/O errors
\* a client that issues its Sets without waiting for the flushes
BusySet ==
    /\ script # <<>>
    /\ PutBody(Head(script).key, Head(script).value)
    /\ script' = Tail(script)
    /\ UNCHANGED <<scripted, unitVars>>

\* three Sets, every one freezing its memtable, T0 compacted above one table
InitFault ==
    /\ InitCommon
    /\ scripted = TRUE
    /\ arg = <<>> /\ ret = <<>>
    /\ script = <<[key |-> 1, value |-> "a"], [key |-> 2, value |-> "b"],
                  [key |-> 1, value |-> "c"]>>
    /\ cfg = FillDefaults([maxMemtableSize |-> 1, maxTablesPerTier |-> 1,
                            indexInterval |-> 0])

NextFault ==
    \/ BusySet
    \/ \E t \in flushTasks : FlushAlloc(t)
    \/ \E t \in flushTasks : FlushCreate(t)
    \/ \E t \in flushTasks : FlushWrite(t)
    \/ \E t \in flushTasks : FlushRegister(t)
    \/ \E c \in BagToSet(compTasks) : CompCheck(c)
    \/ \E c \in BagToSet(compTasks) : CompBegin(c)
    \/ \E c \in BagToSet(compTasks) : CompCreate(c)
    \/ \E c \in BagToSet(compTasks) : CompCreateFail(c)
    \/ \E c \in BagToSet(compTasks) : CompMerge(c)
    \/ \E c \in BagToSet(compTasks) : CompMergeReadFail(c)
    \/ \E c \in BagToSet(compTasks) : CompCleanup(c)
    \/ \E c \in BagToSet(compTasks) : CompSwap(c)
    \/ \E c \in BagToSet(compTasks) : CompLogError(c)

SpecFault == InitFault /\ [][NextFault]_vars

\* ------------------------------------------ back-to-back Sets, failing flushes
\* sstable.NewWriter fails: flushMemtable returns the error before it takes
\* e.mu, the goroutine logs it and ends; the memtable is still in the
\* immutable queue and the file number is spent
FlushCreateFail(t) ==
    /\ t \in flushTasks /\ t.pc = "create"
    /\ phase \in {"open", "closing"}
    /\ flushTasks' = flushTasks \ {t}
    /\ UNCHANGED unsync
    /\ UNCHANGED <<phase, cfg, engineVars, walVars, diskVars, compTasks, closeVars,
                   clientVars, histVars>>

NextFlushFault ==
    \/ BusySet
    \/ \E t \in flushTasks : FlushAlloc(t)
    \/ \E t \in flushTasks : FlushCreate(t)
    \/ \E t \in flushTasks : FlushCreateFail(t)
    \/ \E t \in flushTasks : FlushWrite(t)
    \/ \E t \in flushTasks : FlushRegister(t)
    \/ \E c \in BagToSet(compTasks) : CompCheck(c)
    \/ \E c \in BagToSet(compTasks) : CompBegin(c)
    \/ \E c \in BagToSet(compTasks) : CompCreate(c)
    \/ \E c \in BagToSet(compTasks) : CompMerge(c)
    \/ \E c \in BagToSet(compTasks) : CompCleanup(c)
    \/ \E c \in BagToSet(compTasks) : CompSwap(c)

SpecFlushFault == InitFault /\ [][NextFlushFault]_vars

\* --------------------------------- Sets paced by the flushes, any threshold
\* a client that issues its next Set once the flushes have registered their
\* tables, whatever the compactions are doing
PacedSet ==
    /\ script # <<>>
    /\ flushTasks = {}
    /\ PutBody(Head(script).key, Head(script).value)
    /\ script' = Tail(script)
    /\ UNCHANGED <<scripted, unitVars>>

\* values of MaxTablesPerTier that NewEngine takes as they are: FillDefaults
\* replaces zero only
AcceptedTablesPerTier == {-1, 1}

\* four Sets, every one freezing its memtable
InitPaced ==
    /\ InitCommon
    /\ scripted = TRUE
    /\ arg = <<>> /\ ret = <<>>
    /\ script = <<[key |-> 1, value |-> "a"], [key |-> 2, value |-> "b"],
                  [key |-> 1, value |-> "c"], [key |-> 2, value |-> "d"]>>
    /\ \E tp \in AcceptedTablesPerTier :
          cfg = FillDefaults([maxMemtableSize |-> 1, maxTablesPerTier |-> tp,
                              indexInterval |-> 0])

NextPaced ==
    \/ PacedSet
    \/ \E t \in flushTasks : FlushAlloc(t)
    \/ \E t \in flushTasks : FlushCreate(t)
    \/ \E t \in flushTasks : FlushWrite(t)
    \/ \E t \in flushTasks : FlushRegister(t)
    \/ \E c \in BagToSet(compTasks) : CompCheck(c)
    \/ \E c \in BagToSet(compTasks) : CompBegin(c)
    \/ \E c \in BagToSet(compTasks) : CompCreate(c)
    \/ \E c \in BagToSet(compTasks) : CompMerge(c)
    \/ \E c \in BagToSet(compTasks) : CompCleanup(c)
    \/ \E c \in BagToSet(compTasks) : CompSwap(c)

SpecPaced == InitPaced /\ [][NextPaced]_vars

\* ------------------------------ a client that writes and closes at any time
\* the next call of the script, a Delete when its value is nil, issued
\* whatever the background tasks and Close are doing
LiveWrite ==
    /\ script # <<>>
    /\ IF Head(script).value = Nil
       THEN DeleteBody(Head(script).key)
       ELSE PutBody(Head(script).key, Head(script).value)
    /\ script' = Tail(script)
    /\ UNCHANGED <<scripted, unitVars>>

\* Close called from another goroutine at any point of the script
LiveClose == CloseStartStep

\* Delete, Set: the Set freezes the memtable; T0 is compacted above one
\* table, which takes the background flush and the flush Close makes of the
\* same memtable
InitLive ==
    /\ InitCommon
    /\ scripted = TRUE
    /\ arg = <<>> /\ ret = <<>>
    /\ script = <<[key |-> 2, value |-> Nil], [key |-> 1, value |-> "a"]>>
    /\ cfg = FillDefaults([maxMemtableSize |-> 1, maxTablesPerTier |-> 1,
                            indexInterval |-> 0])

NextLive ==
    \/ LiveWrite
    \/ LiveClose
    \/ \E t \in flushTasks : FlushAlloc(t)
    \/ \E t \in flushTasks : FlushCreate(t)
    \/ \E t \in flushTasks : FlushWrite(t)
    \/ \E t \in flushTasks : FlushRegister(t)
    \/ \E c \in BagToSet(compTasks) : CompCheck(c)
    \/ \E c \in BagToSet(compTasks) : CompBegin(c)
    \/ \E c \in BagToSet(compTasks) : CompCreate(c)
    \/ \E c \in BagToSet(compTasks) : CompMerge(c)
    \/ \E c \in BagToSet(compTasks) : CompCleanup(c)
    \/ \E c \in BagToSet(compTasks) : CompSwap(c)
    \/ CloseMemtable
    \/ CloseFlushAlloc
    \/ CloseFlushCreate
    \/ CloseFlushWrite
    \/ CloseFlushRegister
    \/ CloseImmStart
    \/ CloseImmNext
    \/ CloseReaders
    \/ CloseWAL
    \/ CloseWait

\* the Go scheduler runs a goroutine that can take a step: the client, a
\* flush, a compaction or Close
SpecLive == InitLive /\ [][NextLive]_vars /\ WF_vars(NextLive)

\* --------------------------------------------- components on their own
NotRun == [done |-> FALSE, out |-> <<>>]

UnitInit ==
    /\ InitCommon
    /\ script = <<>> /\ scripted = TRUE
    /\ cfg = FillDefaults([maxMemtableSize |-> 0, maxTablesPerTier |-> 0,
                            indexInterval |-> 0])
    /\ ret = NotRun

UnitUnchanged ==
    UNCHANGED <<phase, cfg, engineVars, walVars, diskVars, taskVars, closeVars,
                script, scripted, arg, histVars, unsync>>

\* what a table holds per key: nothing, a Set or a Delete
Slots == {"none", "put", "del"}

\* the data section of a table written from ascending keys; its Set records
\* carry the value v
TableOf(c, v) ==
    LET ks == KeysAsc({k \in DOMAIN c : c[k] # "none"}) IN
    [j \in 1..Len(ks) |-> IF c[ks[j]] = "del" THEN Stored(DeleteEntry, ks[j], Nil)
                          ELSE Stored(PutEntry, ks[j], v)]

\* the merger's sources, earliest first; the Set records of source i carry
\* the value "s<i>"
InitMerge ==
    /\ UnitInit
    /\ \E n \in 0..MaxSources : \E cs \in [1..n -> [Keys -> Slots]] :
          arg = [i \in 1..n |-> TableOf(cs[i], "s" \o ToString(i))]

\* AddSource for every table, SetOutput, Merge
MergeTables ==
    /\ ~ret.done
    /\ ret' = [done |-> TRUE, out |-> Merge(arg)]
    /\ UnitUnchanged

NextMerge == MergeTables

\* keys of the tables written on their own, and the keys looked up in them
TableKeys == 1..(NumKeys + 1)
ProbeKeys == 0..(NumKeys + 2)

\* what a written sequence holds per key: nothing, a Set of "" or of "a", or
\* a Delete
TableSlots == {"none", "empty", "a", "del"}

\* the sequence of records handed to the writer, ascending in key
RecordsOf(c) ==
    LET ks == KeysAsc({k \in DOMAIN c : c[k] # "none"}) IN
    [j \in 1..Len(ks) |->
        IF c[ks[j]] = "del" THEN [type |-> DeleteEntry, key |-> ks[j], value |-> Nil]
        ELSE [type |-> PutEntry, key |-> ks[j],
              value |-> IF c[ks[j]] = "empty" THEN "" ELSE "a"]]

InitTable ==
    /\ UnitInit
    /\ \E c \in [TableKeys -> TableSlots], n \in 1..MaxInterval :
          arg = [recs |-> RecordsOf(c), interval |-> n]

\* NewWriter(path, interval), the writes, Close, NewReader; then a full
\* iteration and one Get per key
TableRoundTrip ==
    /\ ~ret.done
    /\ LET data == WriteTable(arg.recs) IN
       ret' = [done |-> TRUE,
               out |-> [data |-> data,
                        iter |-> Iterate(data),
                        get |-> [k \in ProbeKeys |-> ReaderGet(data, arg.interval, k)]]]
    /\ UnitUnchanged

NextTable == TableRoundTrip

SpecTable == InitTable /\ [][NextTable]_vars

\* ---- the error Close returns ----

\* most immutable memtables queued when Close runs
MaxCloseImms == 3

\* what a shutdown step returns
StepOutcomes == {"ok", "err"}

\* the steps of Close that can set finalErr, in the order Close runs them,
\* each with the error it would wrap: the flush of the active memtable, one
\* flush per queued immutable memtable, the WAL close
CloseSteps(a) ==
    <<[err |-> "failed to flush final memtable", outcome |-> a.mem]>>
    \o [i \in 1..Len(a.imms) |->
          [err |-> "failed to flush immutable memtable", outcome |-> a.imms[i]]]
    \o <<[err |-> "failed to close WAL", outcome |-> a.wal]>>

\* 'var finalErr error' followed by 'finalErr = fmt.Errorf(...)' at every
\* failing step: a later failure replaces an earlier one
RECURSIVE finalErr(_)
finalErr(steps) ==
    IF steps = <<>> THEN Nil
    ELSE IF steps[Len(steps)].outcome = "err" THEN steps[Len(steps)].err
    ELSE finalErr(SubSeq(steps, 1, Len(steps) - 1))

\* the first failure in step order
RECURSIVE FirstError(_)
FirstError(steps) ==
    IF steps = <<>> THEN Nil
    ELSE IF Head(steps).outcome = "err" THEN Head(steps).err
    ELSE FirstError(Tail(steps))

InitCloseErr ==
    /\ UnitInit
    /\ \E m \in StepOutcomes, w \in StepOutcomes :
       \E n \in 0..MaxCloseImms : \E is \in [1..n -> StepOutcomes] :
          arg = [mem |-> m, imms |-> is, wal |-> w]

\* Close: no step returns early, every step runs whatever the earlier ones
\* returned
CloseAll ==
    /\ ~ret.done
    /\ ret' = [done |-> TRUE,
               out |-> [err |-> finalErr(CloseSteps(arg)),
                        stepsRun |-> Len(CloseSteps(arg))]]
    /\ UnitUnchanged

NextCloseErr == CloseAll

SpecCloseErr == InitCloseErr /\ [][NextCloseErr]_vars

SpecMerge == InitMerge /\ [][NextMerge]_vars


\* ------------------------------------------------------------------ claims
\* what Get must return for a key given the last successful write to it
Expected(k) ==
    IF lastWrite[k].type = PutEntry THEN Hit(lastWrite[k].value) ELSE NotFound

\* the engine has just been re-Opened after Close returned
ReopenedAfterClose == phase = "open" /\ fresh /\ stop = "close" /\ mu = 0

\* the engine has just been re-Opened after a crash
ReopenedAfterCrash == phase = "open" /\ fresh /\ stop = "crash" /\ mu = 0

\* keys written in this run whose last write no crash has followed
Written == {k \in Keys : lastWrite[k] # NoWrite /\ k \notin crashedSince}

\* C1: a key whose last write is a successful Set(k, v) reads back v after
\* Close returned and the directory was re-Opened, also when the memtable was
\* below the flush threshold at Close
C1_SetSurvivesRestart ==
    ReopenedAfterClose =>
        \A k \in Written :
            lastWrite[k].type = PutEntry => EngineGet(k) = Hit(lastWrite[k].value)

\* C1 witness: re-Opened after Close with the default (never reached) flush
\* threshold, and a key last written by Set reads back its value
C1_Witness ==
    /\ ReopenedAfterClose
    /\ cfg.maxMemtableSize = defaultMaxMemtableSize
    /\ \E k \in Written : /\ lastWrite[k].type = PutEntry
                          /\ EngineGet(k) = Hit(lastWrite[k].value)

\* some SSTable file holds a value of k
ValueOnDisk(k) ==
    \E f \in disk : /\ f.complete
                    /\ \E i \in 1..Len(f.data) : f.data[i].key = k /\ f.data[i].value # ""

\* C2: a key whose last write is a successful Delete(k) reads back not found
\* after Close and re-Open, whatever earlier Sets of k the memtable, the WAL
\* or an SSTable held
C2_DeleteSurvivesRestart ==
    ReopenedAfterClose =>
        \A k \in Written : lastWrite[k].type = DeleteEntry => EngineGet(k) = NotFound

\* C2 witness: re-Opened after Close, a key last written by Delete reads not
\* found while an SSTable still holds an earlier value of it
C2_Witness ==
    /\ ReopenedAfterClose
    /\ \E k \in Written : /\ lastWrite[k].type = DeleteEntry
                          /\ ValueOnDisk(k)
                          /\ EngineGet(k) = NotFound

\* the record of the last write to k is in the active memtable, in an
\* immutable memtable or in an SSTable registered in tiers
Reachable(k) ==
    LET w == lastWrite[k]
        e == [type |-> w.type, value |-> w.value]
    IN \/ HasKey(memtable, k) /\ memtable.data[k] = e
       \/ \E i \in 1..immLen : HasKey(immArr[i], k) /\ immArr[i].data[k] = e
       \/ \E t \in 1..Len(tiers) : \E j \in 1..Len(tiers[t]) :
            LET d == ReaderData(tiers[t][j]) IN
            \E i \in 1..Len(d) : d[i] = Stored(w.type, k, w.value)

\* C3: once Set or Delete has returned, its record is at every moment in the
\* active memtable, an immutable memtable or a registered SSTable
C3_NoVisibilityWindow ==
    phase \in {"open", "closing"} => \A k \in Written : Reachable(k)

\* C4: while the last write to k is Delete(k), Get(k) returns not found, also
\* once the tombstone has been flushed to an SSTable
C4_TombstoneSuppresses ==
    (phase = "open" /\ mu = 0) =>
        \A k \in Written : lastWrite[k].type = DeleteEntry => EngineGet(k) = NotFound

\* C5: Get(k) returns the value of the most recent successful Set(k) under
\* every interleaving of background flushes and compactions
C5_GetReturnsLatest ==
    (phase = "open" /\ mu = 0) =>
        \A k \in Written :
            lastWrite[k].type = PutEntry => EngineGet(k) = Hit(lastWrite[k].value)

\* C6: after Close and re-Open, Get returns for every key what it returned
\* just before Close
C6_RestartPreservesMapping ==
    (ReopenedAfterClose /\ preClose # <<>>) => GetAll = preClose

\* C7: after a crash and restart, Get returns the last write of every key
\* whose last write had reached the WAL file at the last WAL flush or was in a
\* memtable fully flushed to an SSTable
C7_CrashRecovery ==
    ReopenedAfterCrash => \A k \in crashSafe \cap Keys : EngineGet(k) = Expected(k)

\* C8: every access to the active-memtable reference, the immutable-memtable
\* queue and the tiers vector happens under the engine lock
C8_LockedAccess == unsync = {}

\* the scripted session has made all its writes and background work is done
ScriptDone(sc) ==
    /\ scripted /\ script = <<>> /\ Quiescent /\ mu = 0
    /\ writes = Len(sc)
    /\ lastWrite[sc[Len(sc)].key].value = sc[Len(sc)].value

\* Get("a") is "new" and tiers[1] holds exactly one SSTable that returns "new"
MergedOutcome ==
    /\ EngineGet(1) = Hit("new")
    /\ Len(tiers) >= 2
    /\ Len(tiers[2]) = 1
    /\ LET r == ReaderGet(ReaderData(tiers[2][1]), cfg.indexInterval, 1)
       IN ~r.err /\ r.value = "new"

C10_PromotesToT2 ==
    (ScriptDone(PromoteScript) /\ cfg.maxTablesPerTier = 1 /\ cfg.maxMemtableSize = 1) =>
        /\ Len(tiers) >= 3
        /\ \A i \in 1..5 : EngineGet(i) = Hit(PromoteScript[i].value)
        /\ \A j \in 1..Len(tiers[3]) :
              Exists(tiers[3][j]) /\ FileOf(tiers[3][j]).tier = 2

\* C10 witness: the five Sets are done, work has quiesced and tiers[2] holds
\* an SSTable
C10_Witness ==
    /\ ScriptDone(PromoteScript)
    /\ cfg.maxTablesPerTier = 1 /\ cfg.maxMemtableSize = 1
    /\ Len(tiers) >= 3 /\ Len(tiers[3]) >= 1
    /\ EngineGet(1) = Hit("v0")

\* the keys of a data section
KeysIn(data) == {data[i].key : i \in 1..Len(data)}

\* the record a data section holds for key k
RecordOf(data, k) == data[CHOOSE i \in 1..Len(data) : data[i].key = k]

\* the newest source holding key k
Newest(srcs, k) == MaxOf({i \in 1..Len(srcs) : k \in KeysIn(srcs[i])})

\* C11: the merger's output holds exactly one record per distinct input key,
\* the one of the highest-priority source holding the key, a Delete record
\* being written as a Delete, and its keys are strictly ascending
C11_MergeNewestWins ==
    ret.done =>
        /\ \A i \in 1..(Len(ret.out) - 1) : ret.out[i].key < ret.out[i + 1].key
        /\ KeysIn(ret.out) = UNION {KeysIn(arg[i]) : i \in 1..Len(arg)}
        /\ \A i \in 1..Len(ret.out) :
              ret.out[i] = RecordOf(arg[Newest(arg, ret.out[i].key)], ret.out[i].key)

\* C11 witness: two sources hold the same key, the newer one as a Delete, and
\* the merged output holds that key as a Delete next to another key
C11_Witness ==
    /\ ret.done
    /\ Len(arg) >= 2 /\ Len(ret.out) >= 2
    /\ \E k \in Keys :
          /\ k \in KeysIn(arg[1]) /\ RecordOf(arg[1], k).type = PutEntry
          /\ k \in KeysIn(arg[2]) /\ RecordOf(arg[2], k).type = DeleteEntry
          /\ Newest(arg, k) = 2
          /\ RecordOf(ret.out, k).type = DeleteEntry

\* a file has been created since the last Open
CreatedSinceOpen == restarts > 0 /\ created # <<>>

NoNumberTwice == \A n \in BagToSet(used) : CopiesIn(n, used) = 1

\* C13 as stated: the numbers of the SSTable files are strictly increasing in
\* the order the files are created and never reused, under every
\* interleaving of flushes and compactions and across restarts
C13_AsStated ==
    /\ \A i \in 1..(Len(created) - 1) : created[i] < created[i + 1]
    /\ NoNumberTwice

\* C13 amended: no two SSTable files ever receive the same number, under
\* every interleaving of flushes and compactions and across restarts, and
\* the counter is never below a number a file has received
C13_NeverReused ==
    /\ NoNumberTwice
    /\ \A n \in BagToSet(used) : n <= sstCounter \/ phase \in {"new", "crashed"}

\* C13 witness: files were created before the restart and after it, all with
\* different numbers
C13_Witness ==
    /\ CreatedSinceOpen
    /\ BagCardinality(used) > Len(created)
    /\ NoNumberTwice

\* C17: a Set or Delete made after Close has returned is rejected with the
\* closed error and changes neither the WAL, the memtables nor the SSTables
C17_RejectedAfterClose ==
    [][(phase = "closed" /\ phase' = "closed") =>
          /\ lastErr' = "closed"
          /\ writes' = writes
          /\ UNCHANGED <<walFile, walBuf, walClosed, memtable, immArr, immLen,
                         disk, dirs, tiers>>]_vars

\* C17 witness: Close has returned after a write was accepted, and a later
\* call has been rejected
C17_Witness ==
    /\ phase = "closed"
    /\ lastErr = "closed"
    /\ writes > 0
    /\ walClosed

C15_ReaderGet ==
    ret.done =>
        \A k \in ProbeKeys :
            LET r == ret.out.get[k] IN
            IF k \notin KeysIn(arg.recs) THEN r.err
            ELSE RecordOf(arg.recs, k).type = PutEntry =>
                    /\ ~r.err
                    /\ r.type = PutEntry
                    /\ r.value = RecordOf(arg.recs, k).value

\* C15 witness: keys 1 and 3 share one block; 2 between them, 0 below and 4
\* above are not found, and 3 is found
C15_Witness ==
    /\ ret.done
    /\ arg.interval >= 2
    /\ KeysIn(arg.recs) = {1, 3}
    /\ RecordOf(arg.recs, 3).type = PutEntry
    /\ ret.out.get[0].err /\ ret.out.get[2].err /\ ret.out.get[4].err
    /\ ~ret.out.get[3].err /\ ret.out.get[3].value = RecordOf(arg.recs, 3).value

RECURSIVE StoredBytes(_, _)
StoredBytes(m, S) ==
    IF S = {} THEN 0
    ELSE LET k == CHOOSE j \in S : TRUE
         IN KeyLen(k) + ValLen(m.data[k].value) + StoredBytes(m, S \ {k})

\* C16: the memtable's Size() is the sum of len(key)+len(value) over the
\* records it stores, a tombstone counting its key only, after any sequence
\* of Put and Delete
C16_SizeIsExactSum == memtable.size = StoredBytes(memtable, DOMAIN memtable.data)

\* the records of a memtable as the writer would store them with their types
TypedRecords(m) ==
    LET ks == KeysAsc(DOMAIN m.data) IN
    [i \in 1..Len(ks) |-> Stored(m.data[ks[i]].type, ks[i], m.data[ks[i]].value)]

\* the flushes, background or of Close, whose file is written and not yet
\* registered
WrittenFlushes ==
    {t \in flushTasks \cup {closeFlush} :
        t.pc = "register" /\ \E f \in disk : f.num = t.num}

\* C18: a flush writes every record of the frozen memtable to its SSTable
\* in ascending key order with its type kept, a Set as a Put entry and a
\* Delete as a Delete entry
C18_FlushKeepsType ==
    \A t \in WrittenFlushes : FileOf(t.num).data = TypedRecords(t.mem)

\* C19: when the active memtable does not hold a key and frozen memtables
\* do, Get answers from the most recently frozen memtable holding it
C19_NewestImmutableDecides ==
    \A k \in Keys :
        LET holders == {i \in 1..Len(Immutables) : HasKey(Immutables[i], k)} IN
        (~HasKey(memtable, k) /\ holders # {}) =>
            EngineGet(k) = EntryResult(Immutables[MaxOf(holders)].data[k])

\* C20: within every tier a later index holds newer data than an earlier
\* one, at all times (after flush registrations, compactions and Open)
C20_TierOrderedByRecency ==
    \A t \in 1..Len(tiers) :
        \A i, j \in 1..Len(tiers[t]) :
            (i < j /\ tiers[t][i] \in DOMAIN gen /\ tiers[t][j] \in DOMAIN gen) =>
                gen[tiers[t][i]] < gen[tiers[t][j]]

\* the compactions between taking their inputs and the tier swap
InCompaction == {c \in BagToSet(compTasks) : c.pc \in {"create", "merge", "cleanup", "swap"}}

Merged == {c \in BagToSet(compTasks) : c.pc = "cleanup"}

\* C22: for every key, Get returns after a compaction what it returned
\* before it: the search through the tiers the swap installs gives the
\* result of the search through the tiers holding the inputs, also when a
\* read of an input failed during the merge
C22_CompactionInvisible ==
    \A c \in Merged : \A k \in AllKeys : GetThrough(SwappedTiers(c), k) = EngineGet(k)

\* the compactions whose merge iterators have yet to read their inputs
Merging == {c \in BagToSet(compTasks) : c.pc \in {"create", "merge"}}

\* C23: no reader is closed while a merge iterator has still to step through
\* it, and no merge reads a reader that has been closed, also when Close
\* runs while a compaction spawned by its own last flush is in flight
C23_NoReaderClosedUnderMerge ==
    \A c \in Merging : \A i \in 1..Len(c.inputs) : c.inputs[i] \notin closedReaders

\* C24: every reader held in the tiers vector is open and has its file,
\* whenever the engine is open and its lock is free for a reader of tiers
C24_RegisteredReadersServe ==
    (phase = "open" /\ mu = 0) =>
        \A t \in 1..Len(tiers) : \A i \in 1..Len(tiers[t]) :
            tiers[t][i] \notin closedReaders /\ Exists(tiers[t][i])

\* C25: a compaction deletes an input file only after its output is
\* registered in the next tier by the swap: as long as the output is not in
\* tiers[tier+1], every input file is on disk
C25_InputsDeletedLast ==
    \A c \in InCompaction :
        (\A i \in 1..Len(tiers[c.tier + 2]) : tiers[c.tier + 2][i] # c.out) =>
            \A i \in 1..Len(c.inputs) : Exists(c.inputs[i])

\* the compactions that returned an error before the tier swap
Failed == {c \in BagToSet(compTasks) : c.pc = "failed"}

\* C26: after a compaction failed before the swap every input is still
\* registered in its tier, open and on disk, and the output is not
\* registered
C26_FailureLeavesTiers ==
    \A c \in Failed :
        /\ \A i \in 1..Len(c.inputs) :
              /\ \E j \in 1..Len(tiers[c.tier + 1]) : tiers[c.tier + 1][j] = c.inputs[i]
              /\ c.inputs[i] \notin closedReaders
              /\ Exists(c.inputs[i])
        /\ \A t \in 1..Len(tiers) : \A j \in 1..Len(tiers[t]) : tiers[t][j] # c.out

\* the finished T0 files written from the memtable with this id
FlushedFrom(id) ==
    {f \in disk : f.tier = 0 /\ f.complete /\ f.num \in DOMAIN gen /\ gen[f.num] = id}

\* C27: a frozen memtable is flushed once: no two T0 SSTables are written
\* from the same memtable, also when Close flushes the immutable queue
\* while a background flush is in flight
C27_FlushedOnce ==
    \A id \in 1..nextMemId : Cardinality(FlushedFrom(id)) <= 1

\* C28: when a Set or a Delete returns, the active memtable is not above
\* MaxMemtableSize: a memtable whose size exceeds it after the update has
\* been pushed onto the immutable queue and replaced within the call
C28_WritesFreezeFullMemtable ==
    [][writes' = writes + 1 => memtable'.size <= cfg.maxMemtableSize]_vars

\* C29: the engine write lock is not held while a compaction merges its
\* inputs into the output SSTable or removes them: a Set or Delete never
\* waits for that I/O
C29_NoLockDuringMerge ==
    \A c \in BagToSet(compTasks) : c.pc \in {"merge", "cleanup"} => mu = 0

\* the number of compactions between their snapshot and their swap
Running == Cardinality({<<c, n>> \in InCompaction \X (1..MaxScriptFiles) :
                            n <= CopiesIn(c, compTasks)})

\* C30: at most one compaction runs at any time
C30_OneCompactionAtATime == Running <= 1

\* C30 witness: two flushes have each spawned a compaction task; one
\* compaction runs and the other task waits for the lock
C30_Witness ==
    /\ Running = 1
    /\ \E c \in BagToSet(compTasks) : c.pc = "begin" /\ ShouldCompactTier(tiers, c.tier)
    /\ mu = 1

\* C31: a tier is compacted only when it holds more than maxTablesPerTier
\* tables at the time its merge inputs are taken
C31_OnlyEligibleTierCompacted ==
    \A c \in InCompaction : Len(c.inputs) > cfg.maxTablesPerTier

\* C40: compactTiers terminates for every accepted maxTablesPerTier: a
\* cascade goes no deeper than the number of writes that filled the tables,
\* so it performs finitely many compactions
C40_CascadeTerminates ==
    /\ \A c \in BagToSet(compTasks) : c.tier <= writes
    /\ Len(tiers) <= writes + 1

C33_CloseReportsFirstError ==
    ret.done =>
        /\ ret.out.err = FirstError(CloseSteps(arg))
        /\ ret.out.stepsRun = Len(arg.imms) + 2

\* C34: a memtable whose background flush failed stays in the immutable
\* queue and its flush is tried again by the next Set or Delete: when a write
\* returns, every memtable of the queue has a flush in flight
C34_FailedFlushRetriedOnWrite ==
    [][(writes' = writes + 1 /\ phase' = "open") =>
          \A i \in 1..immLen' : \E t \in flushTasks' : t.mem.id = immArr'[i].id]_vars

\* C35: Open skips every corrupt SSTable file: once the engine is open no
\* registered reader stands for a file on disk that lacks its index and
\* footer
C35_CorruptFilesSkipped ==
    phase = "open" =>
        \A i \in 1..Len(tiers) : \A j \in 1..Len(tiers[i]) :
            Exists(tiers[i][j]) => FileOf(tiers[i][j]).complete

\* C36: a Set or Delete whose WAL append fails returns that error and
\* touches nothing: the memtable with its size, the immutable queue, the
\* flush tasks and the log are as before the call
C36_WalErrorLeavesMemtable ==
    [][(lastErr # "closed" /\ lastErr' = "closed") =>
          /\ writes' = writes
          /\ UNCHANGED <<memtable, immArr, immLen, nextMemId, flushTasks,
                         walFile, walBuf>>]_vars

\* C36 witness: after two accepted writes the WAL is closed and a call has
\* been rejected; the memtable is empty, the queue and the flush tasks too
C36_Witness ==
    /\ walClosed
    /\ lastErr = "closed"
    /\ writes > 1
    /\ memtable.size = 0 /\ immLen = 0 /\ flushTasks = {}

\* the log: the records of wal.log followed by the buffered ones
WalLog == walFile \o walBuf

\* the last record of key k in a log that has one
LastOf(log, k) ==
    log[CHOOSE i \in 1..Len(log) :
            /\ log[i].key = k
            /\ \A j \in (i + 1)..Len(log) : log[j].key # k]

\* C37: the log holds the records in the order the calls were accepted:
\* an accepted Set or Delete puts its record behind all the others, no
\* other step reorders the log (a crash or reopen drops buffered records
\* only), and OpenDB replays wal.log first to last, records of earlier
\* sessions first, so that the last record of a key decides its entry
C37_WalKeepsCallOrder ==
    [][/\ writes' = writes + 1 =>
            \E rec \in {WalLog'[i] : i \in 1..Len(WalLog')} :
                /\ WalLog' = Append(WalLog, rec)
                /\ lastWrite'[rec.key] = [type |-> rec.type, value |-> rec.value]
       /\ writes' = writes =>
            \/ WalLog' = WalLog
            \/ walFile' = walFile /\ walBuf' = <<>>
       /\ (phase # "open" /\ phase' = "open") =>
            \A k \in Keys :
               IF \E i \in 1..Len(walFile) : walFile[i].key = k
               THEN /\ HasKey(memtable', k)
                    /\ memtable'.data[k].type = LastOf(walFile, k).type
                    /\ memtable'.data[k].value = LastOf(walFile, k).value
               ELSE ~HasKey(memtable', k)]_vars

\* C37 witness: the engine was reopened on a log with a record of an
\* earlier session and a record appended since stands behind it
C37_Witness ==
    /\ phase = "open"
    /\ restarts > 0
    /\ ~fresh
    /\ Len(WalLog) = 2
    /\ walFile # <<>>
    /\ lastWrite[WalLog[2].key].value = WalLog[2].value

\* C38: the data section of every SSTable on disk, written by a flush or
\* by a compaction, finished or not, has strictly ascending keys
C38_FilesStrictlyAscending ==
    \A f \in disk : \A i \in 1..(Len(f.data) - 1) : f.data[i].key < f.data[i + 1].key

\* C38 witness: a flush has written a table of two records, or a compaction
\* has merged two tables into one of two records
C38_Witness ==
    \E f \in disk : f.complete /\ Len(f.data) = 2 /\ f.data[1].key < f.data[2].key

TypeOK ==
    /\ phase \in {"new", "open", "closing", "closed", "crashed"}
    /\ immLen \in 0..Len(immArr)
    /\ mu \in 0..1
    /\ writes \in 0..(IF scripted THEN 5 ELSE MaxWrites)
    /\ sstCounter \in 0..FileCap

====
